---------------------------- MODULE Spec2Model ----------------------------
(***************************************************************************)
(* Model of the student-habits dashboard: start-up (app.py), data loading  *)
(* and filtering (data_manager.py), the chart builders (plots.py), the     *)
(* page layout (layout.py) and the reactive callbacks (callbacks.py).      *)
(*                                                                         *)
(* Numbers of the dataset are fixed-point: study_hours_per_day, sleep,     *)
(* social media hours, attendance and exam_score are kept in tenths        *)
(* (1.5 h = 15, 75.6 points = 756), as the dataset carries one decimal.    *)
(***************************************************************************)
EXTENDS Integers, Sequences, FiniteSets, TLC

(***************************************************************************)
(* Bounds of the model.                                                    *)
(***************************************************************************)
MaxRows == 3        \* rows of a dataset drawn for the pure-function checks
MaxEvents == 2      \* user interactions in one run of the served dashboard

(***************************************************************************)
(* Python values.                                                          *)
(***************************************************************************)
\* A missing cell (pandas NaN). pandas reads the text "NaN" as missing too,
\* so no present value collides with it.
NaN == "NaN"

\* Optional[List[str]]: None, or a list.
NoneVal == [none |-> TRUE]
Some(v) == [none |-> FALSE, v |-> v]

\* Python truthiness of an Optional[List]: None and [] are falsy.
Truthy(sel) == (~sel.none) /\ Len(sel.v) > 0

Range(s) == {s[i] : i \in DOMAIN s}

(***************************************************************************)
(* config.py                                                               *)
(***************************************************************************)
REQUIRED_COLUMNS ==
    <<"gender", "parental_education_level", "study_hours_per_day",
      "exam_score", "social_media_hours", "sleep_hours",
      "attendance_percentage", "part_time_job", "mental_health_rating">>

HEATMAP_NUMERIC_COLS ==
    <<"study_hours_per_day", "sleep_hours", "social_media_hours",
      "exam_score", "attendance_percentage">>

\* THEMES: theme name -> name of the bootstrap stylesheet.
THEMES == [Jasny |-> "FLATLY", Ciemny |-> "DARKLY"]

(***************************************************************************)
(* DataFrames: a set of column names and a sequence of rows; every row     *)
(* carries its index label idx, which filtering keeps.                     *)
(***************************************************************************)
NoneDF == [none |-> TRUE, cols |-> {}, rows |-> <<>>]
DF(cols, rows) == [none |-> FALSE, cols |-> cols, rows |-> rows]
\* pd.DataFrame(): no columns, no rows.
EmptyDataFrame == DF({}, <<>>)
\* DataFrame.empty: any axis of length 0.
IsEmpty(d) == d.cols = {} \/ Len(d.rows) = 0

\* The sample rows datasets are drawn from (shaped after the Kaggle dataset
\* named by KAGGLE_DATASET: parental_education_level has missing cells).
RowPool ==
    << [gender |-> "Female", parental_education_level |-> "Bachelor",
        part_time_job |-> "No", study_hours_per_day |-> 0, exam_score |-> 600,
        sleep_hours |-> 80, attendance_percentage |-> 850,
        social_media_hours |-> 12, mental_health_rating |-> 8],
       [gender |-> "Male", parental_education_level |-> "Master",
        part_time_job |-> "Yes", study_hours_per_day |-> 16, exam_score |-> 756,
        sleep_hours |-> 65, attendance_percentage |-> 900,
        social_media_hours |-> 26, mental_health_rating |-> 5],
       [gender |-> "Female", parental_education_level |-> NaN,
        part_time_job |-> "Yes", study_hours_per_day |-> 24, exam_score |-> 1000,
        sleep_hours |-> 75, attendance_percentage |-> 1000,
        social_media_hours |-> 30, mental_health_rating |-> 8],
       [gender |-> "Male", parental_education_level |-> "Master",
        part_time_job |-> "No", study_hours_per_day |-> 10, exam_score |-> 404,
        sleep_hours |-> 58, attendance_percentage |-> 700,
        social_media_hours |-> 44, mental_health_rating |-> 2] >>

AllColumns == Range(REQUIRED_COLUMNS)

\* The frame pandas builds from the rows picked by ks (indices into RowPool).
MkRow(k, i) == [idx |-> i] @@ RowPool[k]
MkDF(ks) == DF(AllColumns, [i \in 1..Len(ks) |-> MkRow(ks[i], i)])

RECURSIVE SeqsUpTo(_, _)
SeqsUpTo(S, n) ==
    IF n = 0 THEN {<<>>}
    ELSE LET prev == SeqsUpTo(S, n - 1)
         IN  prev \cup {Append(s, x) : s \in {t \in prev : Len(t) = n - 1}, x \in S}


(***************************************************************************)
(* data_manager.filter_data                                                *)
(***************************************************************************)
\* Series.isin(values): a missing cell is in no list of strings.
IsIn(v, values) == v # NaN /\ v \in Range(values)

\* A gender filter with the mask negated: the rows outside the selection.
GenderStepNegated(d, selected_gender) ==
    IF Truthy(selected_gender)
    THEN LET Keep(r) == ~IsIn(r.gender, selected_gender.v) IN DF(d.cols, SelectSeq(d.rows, Keep))
    ELSE d

\* df[mask] keeps the rows whose mask is true, with their order and index labels.
GenderStep(d, selected_gender) ==
    IF Truthy(selected_gender)
    THEN LET Keep(r) == IsIn(r.gender, selected_gender.v) IN DF(d.cols, SelectSeq(d.rows, Keep))
    ELSE d

\* An education filter that lets rows with a missing cell through.
EduStepKeepMissing(d, selected_edu) ==
    IF Truthy(selected_edu)
    THEN LET Keep(r) == \/ r.parental_education_level = NaN
                        \/ IsIn(r.parental_education_level, selected_edu.v)
         IN  DF(d.cols, SelectSeq(d.rows, Keep))
    ELSE d

EduStep(d, selected_edu) ==
    IF Truthy(selected_edu)
    THEN LET Keep(r) == IsIn(r.parental_education_level, selected_edu.v)
         IN  DF(d.cols, SelectSeq(d.rows, Keep))
    ELSE d

JobStep(d, selected_job) ==
    IF Truthy(selected_job)
    THEN LET Keep(r) == IsIn(r.part_time_job, selected_job.v) IN DF(d.cols, SelectSeq(d.rows, Keep))
    ELSE d

\* The slider counts whole hours; the column is in tenths of an hour.
HoursStep(d, study_hours_range) ==
    IF Len(study_hours_range) = 2
    THEN LET Keep(r) == /\ r.study_hours_per_day >= study_hours_range[1] * 10
                        /\ r.study_hours_per_day <= study_hours_range[2] * 10
         IN  DF(d.cols, SelectSeq(d.rows, Keep))
    ELSE d

\* A filter_data that filters the shared frame in place.
filter_data_inplace(df, selected_gender, selected_edu, study_hours_range, selected_job) ==
    IF df.none \/ IsEmpty(df)
    THEN [ret |-> EmptyDataFrame, df |-> df, shared |-> FALSE]
    ELSE LET out == HoursStep(JobStep(EduStep(GenderStep(df, selected_gender),
                                  selected_edu), selected_job), study_hours_range)
         IN  [ret |-> out, df |-> out, shared |-> TRUE]

\* A filter_data that forgets the part-time-job filter.
filter_data_nojob(df, selected_gender, selected_edu, study_hours_range, selected_job) ==
    IF df.none \/ IsEmpty(df)
    THEN [ret |-> EmptyDataFrame, df |-> df, shared |-> FALSE]
    ELSE [ret |-> HoursStep(EduStep(GenderStep(df, selected_gender), selected_edu),
                            study_hours_range),
          df |-> df, shared |-> FALSE]

\* ret: the frame returned; df: the caller's frame after the call; shared:
\* whether ret is the caller's frame itself (never: the function works on
\* df.copy(), and df[mask] builds a new frame each time).
filter_data(df, selected_gender, selected_edu, study_hours_range, selected_job) ==
    IF df.none \/ IsEmpty(df)
    THEN [ret |-> EmptyDataFrame, df |-> df, shared |-> FALSE]
    ELSE LET filtered_df == df
             g == GenderStep(filtered_df, selected_gender)
             e == EduStep(g, selected_edu)
             j == JobStep(e, selected_job)
             h == HoursStep(j, study_hours_range)
         IN  [ret |-> h, df |-> df, shared |-> FALSE]

(***************************************************************************)
(* Arithmetic on the fixed-point columns.                                  *)
(***************************************************************************)
RECURSIVE SumOf(_, _)
SumOf(rows, c) ==
    IF rows = <<>> THEN 0 ELSE rows[1][c] + SumOf(Tail(rows), c)

\* Rounds num/den (both >= 0, den > 0) to the nearest integer, ties to even.
RoundHalfEven(num, den) ==
    LET q == num \div den
        r == num % den
    IN  IF 2 * r < den THEN q
        ELSE IF 2 * r > den THEN q + 1
        ELSE IF q % 2 = 0 THEN q ELSE q + 1

\* f"{x:.2f}" of x = sum/(10*n): the mean of n cells kept in tenths.
Format2(sum, n) ==
    LET h == RoundHalfEven(10 * sum, n)
        frac == h % 100
    IN  ToString(h \div 100) \o "." \o
        (IF frac < 10 THEN "0" ELSE "") \o ToString(frac)

\* A KPI text formatted with one decimal instead of two.
MeanTextOneDecimal(d, c) ==
    LET h == RoundHalfEven(SumOf(d.rows, c), Len(d.rows))
    IN  ToString(h \div 10) \o "." \o ToString(h % 10)

\* f"{series.mean():.2f}" for a column of a non-empty frame.
MeanText(d, c) == Format2(SumOf(d.rows, c), Len(d.rows))


(***************************************************************************)
(* pandas helpers used by plots.py and layout.py                           *)
(***************************************************************************)
\* The order Python gives the text values of the dataset (sorted()).
TextOrder == <<"Bachelor", "Female", "Male", "Master", "No", "Yes">>
Rank(v) == CHOOSE i \in DOMAIN TextOrder : TextOrder[i] = v

RECURSIVE SortedSeq(_, _)
\* The elements of the finite set S in ascending order of Key (an injective
\* function on S).
SortedSeq(S, Key) ==
    IF S = {} THEN <<>>
    ELSE LET m == CHOOSE x \in S : \A y \in S : Key[x] <= Key[y]
         IN  <<m>> \o SortedSeq(S \ {m}, Key)

\* Series.dropna().unique(), sorted(): the present text values of column c.
SortedTexts(rows, c) ==
    LET S == {rows[i][c] : i \in DOMAIN rows} \ {NaN}
    IN  SortedSeq(S, [v \in S |-> Rank(v)])

\* The present numeric values of column c, ascending.
SortedNums(rows, c) ==
    LET S == {rows[i][c] : i \in DOMAIN rows}
    IN  SortedSeq(S, [v \in S |-> v])

RowsWith(rows, c, v) == LET Keep(r) == r[c] = v IN SelectSeq(rows, Keep)

\* The mean of column c over rows, as the fraction sum / (scale * count).
MeanFrac(rows, c, scale) == [num |-> SumOf(rows, c), den |-> scale * Len(rows)]

FracLess(a, b) == a.num * b.den < b.num * a.den

(***************************************************************************)
(* plots.py: the figures. A figure records the plotting primitive (kind),  *)
(* its title, its template, whether it is the "no data" placeholder, the   *)
(* columns the builder read, and the data handed to the primitive.         *)
(* Polish diacritics of the titles are written in ASCII.                   *)
(***************************************************************************)
\* The template of a figure built without one.
DefaultTemplate == "plotly"

Placeholder(kind, title) ==
    [kind |-> kind, title |-> title, template |-> DefaultTemplate,
     placeholder |-> TRUE, reads |-> {}, data |-> <<>>, raised |-> ""]

Figure(kind, title, template, reads, data) ==
    [kind |-> kind, title |-> title, template |-> template,
     placeholder |-> FALSE, reads |-> reads, data |-> data, raised |-> ""]

\* A builder that stopped with an exception.
Raised(kind, exc, reads) ==
    [kind |-> kind, title |-> "", template |-> "", placeholder |-> FALSE,
     reads |-> reads, data |-> <<>>, raised |-> exc]

\* Reading the columns `reads` of d: a KeyError when one is not a column.
Plot(d, kind, title, template, reads, data) ==
    IF reads \subseteq d.cols
    THEN Figure(kind, title, template, reads, data)
    ELSE Raised(kind, "KeyError", reads)

ScatterReads ==
    {"study_hours_per_day", "exam_score", "gender", "social_media_hours", "sleep_hours"}

\* A scatter builder without the empty guard.
create_scatter_plot_noguard(filtered_df, template) ==
    Plot(filtered_df, "scatter", "Wplyw czasu nauki na wynik egzaminu", template,
         ScatterReads,
         [i \in DOMAIN filtered_df.rows |->
            [x |-> filtered_df.rows[i].study_hours_per_day,
             y |-> filtered_df.rows[i].exam_score,
             color |-> filtered_df.rows[i].gender,
             hover |-> <<filtered_df.rows[i].social_media_hours,
                         filtered_df.rows[i].sleep_hours>>]])

create_scatter_plot(filtered_df, template) ==
    IF IsEmpty(filtered_df)
    THEN Placeholder("scatter", "Wplyw czasu nauki na wynik egzaminu (Brak danych)")
    ELSE Plot(filtered_df, "scatter", "Wplyw czasu nauki na wynik egzaminu", template,
              ScatterReads,
              [i \in DOMAIN filtered_df.rows |->
                 [x |-> filtered_df.rows[i].study_hours_per_day,
                  y |-> filtered_df.rows[i].exam_score,
                  color |-> filtered_df.rows[i].gender,
                  hover |-> <<filtered_df.rows[i].social_media_hours,
                              filtered_df.rows[i].sleep_hours>>]])

create_box_plot(filtered_df, template) ==
    IF IsEmpty(filtered_df)
    THEN Placeholder("box", "Rozklad wynikow egzaminu wzgledem plci (Brak danych)")
    ELSE Plot(filtered_df, "box", "Rozklad wynikow egzaminu wzgledem plci", template,
              {"gender", "exam_score"},
              [i \in DOMAIN filtered_df.rows |->
                 [x |-> filtered_df.rows[i].gender,
                  y |-> filtered_df.rows[i].exam_score]])

\* The columns of HEATMAP_NUMERIC_COLS the frame has, in that order.
available_columns(filtered_df) ==
    LET Keep(c) == c \in filtered_df.cols IN SelectSeq(HEATMAP_NUMERIC_COLS, Keep)

\* DataFrame.corr() is left uninterpreted: the matrix is named by the cells
\* it is computed from.
create_heatmap(filtered_df, template) ==
    IF IsEmpty(filtered_df)
    THEN [Placeholder("imshow", "Korelacje miedzy cechami (Brak danych)")
            EXCEPT !.data = <<[z |-> 0]>>]
    ELSE IF Len(available_columns(filtered_df)) < 2
    THEN [Placeholder("imshow", "Korelacje miedzy cechami (Niewystarczajace dane)")
            EXCEPT !.data = <<[z |-> 0]>>]
    ELSE Figure("imshow", "Korelacje miedzy cechami", template,
                Range(available_columns(filtered_df)),
                <<[labels |-> available_columns(filtered_df),
                   corr_of |-> [i \in DOMAIN filtered_df.rows |->
                                  [c \in Range(available_columns(filtered_df)) |->
                                     filtered_df.rows[i][c]]]]>>)

create_exam_score_histogram(filtered_df, template) ==
    IF IsEmpty(filtered_df)
    THEN Placeholder("histogram", "Rozklad wynikow egzaminu (Brak danych)")
    ELSE Plot(filtered_df, "histogram", "Rozklad wynikow egzaminu wg plci", template,
              {"exam_score", "gender"},
              [i \in DOMAIN filtered_df.rows |->
                 [x |-> filtered_df.rows[i].exam_score,
                  color |-> filtered_df.rows[i].gender]])


\* groupby(c)[exam_score].mean(): one entry per present value of c, in
\* ascending order of the value.
MeanScoreBy(rows, keys, c) ==
    [i \in DOMAIN keys |->
       [key |-> keys[i], mean |-> MeanFrac(RowsWith(rows, c, keys[i]), "exam_score", 10)]]

RECURSIVE SortByMean(_)
\* Series.sort_values(): ascending by mean; entries of equal mean keep the
\* order they came in.
SortByMean(entries) ==
    IF entries = <<>> THEN <<>>
    ELSE LET i == CHOOSE i \in DOMAIN entries :
                    /\ \A j \in DOMAIN entries : ~FracLess(entries[j].mean, entries[i].mean)
                    /\ \A j \in 1..(i - 1) : FracLess(entries[i].mean, entries[j].mean)
             rest == [j \in 1..(Len(entries) - 1) |->
                        IF j < i THEN entries[j] ELSE entries[j + 1]]
         IN  <<entries[i]>> \o SortByMean(rest)

\* A bar chart that skips sort_values().
create_bar_unsorted(filtered_df, template) ==
    IF IsEmpty(filtered_df)
    THEN Placeholder("bar", "Srednie wyniki wg poziomu edukacji rodzicow (Brak danych)")
    ELSE Plot(filtered_df, "bar", "Srednie wyniki egzaminow wg wyksztalcenia rodzicow",
              template, {"parental_education_level", "exam_score"},
              MeanScoreBy(filtered_df.rows,
                          SortedTexts(filtered_df.rows, "parental_education_level"),
                          "parental_education_level"))

create_bar_avg_score_by_edu(filtered_df, template) ==
    IF IsEmpty(filtered_df)
    THEN Placeholder("bar", "Srednie wyniki wg poziomu edukacji rodzicow (Brak danych)")
    ELSE Plot(filtered_df, "bar", "Srednie wyniki egzaminow wg wyksztalcenia rodzicow",
              template, {"parental_education_level", "exam_score"},
              SortByMean(MeanScoreBy(filtered_df.rows,
                                     SortedTexts(filtered_df.rows, "parental_education_level"),
                                     "parental_education_level")))

\* assign(sleep_hours_rounded = sleep_hours.round()): whole hours, ties to even.
WithRoundedSleep(rows) ==
    [i \in DOMAIN rows |->
       [sleep_hours_rounded |-> RoundHalfEven(rows[i].sleep_hours, 10)] @@ rows[i]]

create_sleep_vs_score_lineplot(filtered_df, template) ==
    IF IsEmpty(filtered_df)
    THEN Placeholder("line", "Sredni wynik vs liczba godzin snu (Brak danych)")
    ELSE LET rows == WithRoundedSleep(filtered_df.rows)
         IN  Plot(filtered_df, "line",
                  "Sredni wynik egzaminu w zaleznosci od liczby godzin snu", template,
                  {"sleep_hours", "exam_score"},
                  MeanScoreBy(rows, SortedNums(rows, "sleep_hours_rounded"),
                              "sleep_hours_rounded"))

\* pd.cut(exam_score, bins=[0, 60, 75, 85, 100]): right-closed bins, a score
\* outside (0, 100] gets no category.
ScoreCategory(score) ==
    IF score > 0 /\ score <= 600 THEN "Slaby (0-60)"
    ELSE IF score > 600 /\ score <= 750 THEN "Sredni (60-75)"
    ELSE IF score > 750 /\ score <= 850 THEN "Dobry (75-85)"
    ELSE IF score > 850 /\ score <= 1000 THEN "Bardzo dobry (85-100)"
    ELSE NaN

\* filtered_df['score_category'] = pd.cut(...): the frame with the new column.
WithScoreCategory(d) ==
    DF(d.cols \cup {"score_category"},
       [i \in DOMAIN d.rows |->
          [score_category |-> ScoreCategory(d.rows[i].exam_score)] @@ d.rows[i]])

\* The caller's frame after create_attendance_violin_plot: the builder adds
\* score_category to filtered_df.copy(), never to the frame it was given.
violin_frame_after(filtered_df) == filtered_df

create_attendance_violin_plot(filtered_df, template) ==
    IF IsEmpty(filtered_df)
    THEN Placeholder("violin", "Rozklad frekwencji wg wynikow egzaminu (Brak danych)")
    ELSE IF ~({"exam_score", "attendance_percentage"} \subseteq filtered_df.cols)
    THEN Raised("violin", "KeyError", {"exam_score", "attendance_percentage"})
    ELSE LET local == WithScoreCategory(filtered_df)
             Keep(r) == r.score_category # NaN
             kept == SelectSeq(local.rows, Keep)
         IN  Figure("violin", "Rozklad frekwencji w roznych kategoriach wynikow", template,
                    {"exam_score", "attendance_percentage", "score_category"},
                    [i \in DOMAIN kept |->
                       [x |-> kept[i].score_category,
                        y |-> kept[i].attendance_percentage]])

\* groupby(['part_time_job', 'gender']).size(): the pairs present, ascending.
job_gender_counts(rows) ==
    LET jobs == SortedTexts(rows, "part_time_job")
        genders == SortedTexts(rows, "gender")
        pairs == [k \in 1..(Len(jobs) * Len(genders)) |->
                    [job |-> jobs[((k - 1) \div Len(genders)) + 1],
                     gender |-> genders[((k - 1) % Len(genders)) + 1]]]
        Count(p) == LET Keep(r) == r.part_time_job = p.job /\ r.gender = p.gender
                    IN  Len(SelectSeq(rows, Keep))
        Present(p) == Count(p) > 0
        present == SelectSeq(pairs, Present)
    IN  [k \in DOMAIN present |->
           [ids |-> present[k].job \o " - " \o present[k].gender,
            labels |-> present[k].gender,
            parents |-> present[k].job,
            values |-> Count(present[k])]]

\* groupby('part_time_job').size(): one root entry per job present.
job_totals(rows) ==
    LET jobs == SortedTexts(rows, "part_time_job")
    IN  [k \in DOMAIN jobs |->
           [ids |-> jobs[k],
            labels |-> "Praca: " \o jobs[k],
            parents |-> "",
            values |-> Len(RowsWith(rows, "part_time_job", jobs[k]))]]

create_job_sunburst_chart(filtered_df, template) ==
    IF IsEmpty(filtered_df)
    THEN Placeholder("sunburst", "Struktura studentow: praca vs plec (Brak danych)")
    ELSE IF ~({"part_time_job", "gender"} \subseteq filtered_df.cols)
    THEN Raised("sunburst", "KeyError", {"part_time_job", "gender"})
    ELSE LET sunburst_data == job_gender_counts(filtered_df.rows) \o
                              job_totals(filtered_df.rows)
         IN  IF sunburst_data = <<>>
             THEN Raised("sunburst", "KeyError", {"part_time_job", "gender"})
             ELSE Figure("sunburst", "Struktura studentow: Status pracy i plec", template,
                         {"part_time_job", "gender"}, sunburst_data)

PolarReads ==
    {"mental_health_rating", "exam_score", "study_hours_per_day", "sleep_hours",
     "attendance_percentage", "social_media_hours"}

PolarColors ==
    <<"red", "orange", "yellow", "lightgreen", "green", "darkgreen", "blue",
      "purple", "pink", "brown">>

\* One trace per mental_health_rating present: the five normalised means
\* (as fractions), closed by repeating the first.
mental_groups(rows) ==
    LET ratings == SortedNums(rows, "mental_health_rating")
    IN  [k \in DOMAIN ratings |->
           LET g == RowsWith(rows, "mental_health_rating", ratings[k])
               n == Len(g)
               exam_score_norm == [num |-> SumOf(g, "exam_score"), den |-> 100 * n]
               study_hours_norm == [num |-> 2 * SumOf(g, "study_hours_per_day"), den |-> 10 * n]
               sleep_hours_norm == [num |-> 125 * SumOf(g, "sleep_hours"), den |-> 1000 * n]
               attendance_norm == [num |-> SumOf(g, "attendance_percentage"), den |-> 100 * n]
               social == [num |-> 100 * n - SumOf(g, "social_media_hours"), den |-> 10 * n]
               values == <<exam_score_norm, study_hours_norm, sleep_hours_norm,
                           attendance_norm, social>>
           IN  [name |-> "Kondycja psychiczna: " \o ToString(ratings[k]),
                r |-> values \o <<values[1]>>,
                line_color |-> PolarColors[((k - 1) % Len(PolarColors)) + 1]]]

create_mental_health_polar_chart(filtered_df, template) ==
    IF IsEmpty(filtered_df) \/ "mental_health_rating" \notin filtered_df.cols
    THEN Placeholder("polar", "Metryki wg kondycji psychicznej (Brak danych)")
    ELSE IF ~(PolarReads \subseteq filtered_df.cols)
    THEN Raised("polar", "KeyError", PolarReads)
    ELSE Figure("polar", "Profil roznych metryk wg oceny kondycji psychicznej", template,
                PolarReads, mental_groups(filtered_df.rows))


(***************************************************************************)
(* callbacks.py                                                            *)
(***************************************************************************)
\* Python's None where a theme name is expected.
NoneName == "None"

\* dbc.themes: stylesheet name -> URL (the URLs are kept symbolic).
dbc_themes == [FLATLY |-> "dbc.themes.FLATLY", DARKLY |-> "dbc.themes.DARKLY"]

\* A stylesheet lookup without the fallback: an unknown name is a KeyError.
update_main_stylesheet_nofallback(theme_name) ==
    IF theme_name \in DOMAIN THEMES
    THEN dbc_themes[THEMES[theme_name]]
    ELSE "KeyError"

update_main_stylesheet(theme_name) ==
    IF theme_name \in DOMAIN THEMES
    THEN dbc_themes[THEMES[theme_name]]
    ELSE dbc_themes.FLATLY

\* A theme store that keeps the light theme whatever is selected.
update_theme_store_light(selected_theme) == "Jasny"

update_theme_store(selected_theme) == selected_theme

update_dropdown_class(theme_name) ==
    LET class_name == IF theme_name = "Ciemny" THEN "dark-dropdown" ELSE ""
    IN  <<class_name, class_name, class_name>>

\* A layout style that is light for "Jasny" only and dark for everything else.
update_layout_style_unless_light(current_theme) ==
    IF current_theme = "Jasny"
    THEN [backgroundColor |-> "white", color |-> "black", padding |-> "20px",
          paddingLeft |-> "5%", paddingRight |-> "5%"]
    ELSE [backgroundColor |-> "#1e1e1e", color |-> "white", padding |-> "20px",
          paddingLeft |-> "5%", paddingRight |-> "5%"]

update_layout_style(current_theme) ==
    IF current_theme = "Ciemny"
    THEN [backgroundColor |-> "#1e1e1e", color |-> "white", padding |-> "20px",
          paddingLeft |-> "5%", paddingRight |-> "5%"]
    ELSE [backgroundColor |-> "white", color |-> "black", padding |-> "20px",
          paddingLeft |-> "5%", paddingRight |-> "5%"]

\* The chart template update_all_visuals derives from the theme.
Template(theme_name) == IF theme_name = "Ciemny" THEN "plotly_dark" ELSE "plotly_white"

FigureNames ==
    <<"scatter_fig", "box_fig", "heatmap_fig", "histogram_fig", "barchart_fig",
      "line_fig", "attendance_fig", "job_fig", "mental_fig">>

\* The twelve outputs, the exception that ended the callback ("" when it
\* returned), and the shared frame df as the call leaves it.
update_all_visuals(df, selected_gender, selected_edu, study_hours_range, selected_job, theme_name) ==
    LET template == Template(theme_name)
        f == filter_data(df, selected_gender, selected_edu, study_hours_range, selected_job)
        filtered_df == f.ret
        kpi_raises == ~IsEmpty(filtered_df) /\
                      ~({"exam_score", "study_hours_per_day"} \subseteq filtered_df.cols)
        student_count == IF IsEmpty(filtered_df) THEN "0"
                         ELSE ToString(Len(filtered_df.rows))
        avg_score == IF IsEmpty(filtered_df) \/ kpi_raises THEN "N/A"
                     ELSE MeanText(filtered_df, "exam_score")
        avg_study_hours == IF IsEmpty(filtered_df) \/ kpi_raises THEN "N/A"
                           ELSE MeanText(filtered_df, "study_hours_per_day")
        figs == [scatter_fig |-> create_scatter_plot(filtered_df, template),
                 box_fig |-> create_box_plot(filtered_df, template),
                 heatmap_fig |-> create_heatmap(filtered_df, template),
                 histogram_fig |-> create_exam_score_histogram(filtered_df, template),
                 barchart_fig |-> create_bar_avg_score_by_edu(filtered_df, template),
                 line_fig |-> create_sleep_vs_score_lineplot(filtered_df, template),
                 attendance_fig |-> create_attendance_violin_plot(filtered_df, template),
                 job_fig |-> create_job_sunburst_chart(filtered_df, template),
                 mental_fig |-> create_mental_health_polar_chart(filtered_df, template)]
        failed == {i \in DOMAIN FigureNames : figs[FigureNames[i]].raised # ""}
        raised == IF kpi_raises THEN "KeyError"
                  ELSE IF failed = {} THEN ""
                  ELSE figs[FigureNames[CHOOSE i \in failed : \A j \in failed : i <= j]].raised
    IN  figs @@
        [student_count |-> student_count,
         avg_score |-> avg_score,
         avg_study_hours |-> avg_study_hours,
         raised |-> raised,
         df |-> IF f.shared /\ ~kpi_raises THEN violin_frame_after(f.ret) ELSE f.df]


(***************************************************************************)
(* layout.py                                                               *)
(***************************************************************************)
\* The values a dropdown offers: str(v) for the sorted present values.
Options(df, c) == SortedTexts(df.rows, c)

RECURSIVE MinOf(_, _)
MinOf(rows, c) ==
    IF Len(rows) = 1 THEN rows[1][c]
    ELSE LET m == MinOf(Tail(rows), c) IN IF rows[1][c] < m THEN rows[1][c] ELSE m

RECURSIVE MaxOf(_, _)
MaxOf(rows, c) ==
    IF Len(rows) = 1 THEN rows[1][c]
    ELSE LET m == MaxOf(Tail(rows), c) IN IF rows[1][c] > m THEN rows[1][c] ELSE m

\* int(x) of a non-negative number kept in tenths: truncation to whole hours.
IntOfTenths(x) == x \div 10

min_hours(df) == IntOfTenths(MinOf(df.rows, "study_hours_per_day"))
max_hours(df) == IntOfTenths(MaxOf(df.rows, "study_hours_per_day"))

DashboardIds ==
    {"themed-layout", "theme-selector", "theme-store", "kpi-student-count",
     "kpi-avg-score", "kpi-avg-study-hours", "gender-filter", "edu-filter",
     "job-filter", "study-hours-slider", "scatter-plot", "box-plot", "heatmap",
     "histogram_fig", "barchart_fig", "line_fig", "attendance-violin-plot",
     "job-sunburst", "mental-health-polar"}

\* The style themed_div gives the page before any callback has run.
InitialLayoutStyle ==
    [padding |-> "20px", paddingLeft |-> "200px", paddingRight |-> "200px",
     backgroundColor |-> "white", color |-> "black"]

create_error_layout == [kind |-> "error", ids |-> {}]

\* The dashboard page: component ids, the options of the three dropdowns,
\* the slider's bounds and default, and the theme controls' defaults.
create_layout(df) ==
    IF df.none \/ IsEmpty(df)
    THEN [kind |-> "no_data", ids |-> {}]
    ELSE [kind |-> "dashboard", ids |-> DashboardIds,
          gender_options |-> Options(df, "gender"),
          edu_options |-> Options(df, "parental_education_level"),
          job_options |-> Options(df, "part_time_job"),
          slider_min |-> min_hours(df),
          slider_max |-> max_hours(df),
          slider_value |-> <<min_hours(df), max_hours(df)>>,
          theme_selector |-> "Jasny",
          theme_store |-> "Jasny"]

(***************************************************************************)
(* data_manager.load_validated_data                                        *)
(* A CSV file is missing, empty (no bytes), garbage (unreadable), or a     *)
(* table with a header and rows.                                           *)
(***************************************************************************)
CsvMissing == [kind |-> "missing"]
CsvEmpty == [kind |-> "empty"]
CsvGarbage == [kind |-> "garbage"]
CsvTable(d) == [kind |-> "table", cols |-> d.cols, rows |-> d.rows]

missing_columns(d) == LET Absent(c) == c \notin d.cols IN SelectSeq(REQUIRED_COLUMNS, Absent)

\* A loader that skips the emptiness check.
load_validated_data_noempty(csv) ==
    IF csv.kind = "missing" THEN [ret |-> NoneDF, printed |-> "csv_not_found", raised |-> ""]
    ELSE IF csv.kind = "empty" THEN [ret |-> NoneDF, printed |-> "csv_empty", raised |-> ""]
    ELSE IF csv.kind = "garbage" THEN [ret |-> NoneDF, printed |-> "load_error", raised |-> ""]
    ELSE LET d == DF(csv.cols, csv.rows)
         IN  IF missing_columns(d) # <<>>
             THEN [ret |-> NoneDF, printed |-> "missing_columns", raised |-> ""]
             ELSE [ret |-> d, printed |-> "load_ok", raised |-> ""]

\* ret: the frame or None; printed: the message; raised: the exception that
\* left the function ("" when none did).
load_validated_data(csv) ==
    IF csv.kind = "missing" THEN [ret |-> NoneDF, printed |-> "csv_not_found", raised |-> ""]
    ELSE IF csv.kind = "empty" THEN [ret |-> NoneDF, printed |-> "csv_empty", raised |-> ""]
    ELSE IF csv.kind = "garbage" THEN [ret |-> NoneDF, printed |-> "load_error", raised |-> ""]
    ELSE LET d == DF(csv.cols, csv.rows)
         IN  IF missing_columns(d) # <<>>
             THEN [ret |-> NoneDF, printed |-> "missing_columns", raised |-> ""]
             ELSE IF IsEmpty(d)
             THEN [ret |-> NoneDF, printed |-> "dataset_empty", raised |-> ""]
             ELSE [ret |-> d, printed |-> "load_ok", raised |-> ""]

\* The messages that report an error.
ErrorMessages ==
    {"csv_not_found", "csv_empty", "load_error", "missing_columns", "dataset_empty",
     "no_kaggle_json", "download_error"}

(***************************************************************************)
(* data_manager.download_data_if_needed                                    *)
(* The file system holds the CSV, kaggle.json and the downloaded archive   *)
(* (missing, corrupt, or good and then holding a CSV).  The kaggle command *)
(* runs through os.system, which returns the exit status and raises        *)
(* nothing when the command fails.                                         *)
(***************************************************************************)
ZipMissing == [kind |-> "missing"]
ZipCorrupt == [kind |-> "corrupt"]
ZipGood(csv) == [kind |-> "good", csv |-> csv]

\* The archive after the kaggle command ran with outcome cli: "ok" writes a
\* good archive, "partial" leaves a broken one, "fail" leaves what was there.
ZipAfter(zip, cli, remote) ==
    IF cli = "ok" THEN ZipGood(remote)
    ELSE IF cli = "partial" THEN ZipCorrupt
    ELSE zip

\* The try block: the kaggle command, then ZipFile(...).extractall(). A
\* missing or broken archive raises inside the block and is caught there.
DownloadAndExtract(fs, cli, remote) ==
    LET zip1 == ZipAfter(fs.zip, cli, remote)
    IN  IF zip1.kind = "good"
        THEN [fs |-> [fs EXCEPT !.zip = zip1, !.csv = zip1.csv],
              printed |-> <<"download_start", "download_ok">>,
              downloads |-> 1, extractions |-> 1, caught |-> "", raised |-> ""]
        ELSE [fs |-> [fs EXCEPT !.zip = zip1],
              printed |-> <<"download_start", "download_error">>,
              downloads |-> 1, extractions |-> 1,
              caught |-> IF zip1.kind = "missing" THEN "FileNotFoundError" ELSE "BadZipFile",
              raised |-> ""]

\* fs: the file system after the call; printed: the messages, in order;
\* downloads / extractions: how often the kaggle command was run and how
\* often the archive was opened for unpacking; caught: the exception the
\* except clause caught; raised: the exception that left the function.
download_data_if_needed(fs, cli, remote) ==
    IF fs.csv.kind = "missing"
    THEN IF ~fs.kaggle_json
         THEN [fs |-> fs, printed |-> <<"download_start", "no_kaggle_json">>,
               downloads |-> 0, extractions |-> 0, caught |-> "", raised |-> ""]
         ELSE DownloadAndExtract(fs, cli, remote)
    ELSE [fs |-> fs, printed |-> <<"data_exists">>,
          downloads |-> 0, extractions |-> 0, caught |-> "", raised |-> ""]

(***************************************************************************)
(* callbacks.register_callbacks                                            *)
(***************************************************************************)
\* A callback table in which update_all_visuals lacks the job-filter input.
CallbackInputsNoJob ==
    [update_main_stylesheet |-> {"theme-store"},
     update_theme_store |-> {"theme-selector"},
     update_dropdown_class |-> {"theme-store"},
     update_layout_style |-> {"theme-store"},
     update_all_visuals |-> {"gender-filter", "edu-filter", "study-hours-slider",
                             "theme-store"}]

\* Each callback's inputs and outputs (component ids).
CallbackInputs ==
    [update_main_stylesheet |-> {"theme-store"},
     update_theme_store |-> {"theme-selector"},
     update_dropdown_class |-> {"theme-store"},
     update_layout_style |-> {"theme-store"},
     update_all_visuals |-> {"gender-filter", "edu-filter", "study-hours-slider",
                             "job-filter", "theme-store"}]

CallbackOutputs ==
    [update_main_stylesheet |-> {"main-stylesheet"},
     update_theme_store |-> {"theme-store"},
     update_dropdown_class |-> {"gender-filter", "edu-filter", "job-filter"},
     update_layout_style |-> {"themed-layout"},
     update_all_visuals |-> {"scatter-plot", "box-plot", "heatmap", "histogram_fig",
                             "barchart_fig", "line_fig", "attendance-violin-plot",
                             "job-sunburst", "mental-health-polar", "kpi-student-count",
                             "kpi-avg-score", "kpi-avg-study-hours"}]

\* The callbacks register_callbacks(app, df) registers.
register_callbacks(df) ==
    {"update_main_stylesheet", "update_layout_style", "update_all_visuals"} \cup
    (IF ~df.none THEN {"update_theme_store", "update_dropdown_class"} ELSE {})


(***************************************************************************)
(* State.                                                                  *)
(*   pc         where app.py is: start, downloaded, loaded, layout,        *)
(*              registered, serving (app.run), open (a browser has the     *)
(*              page); "pure" in the function-level specification          *)
(*   fs         the files: csv, kaggle_json, zip                           *)
(*   dl         what the call of download_data_if_needed did               *)
(*   console    the messages printed, in order                             *)
(*   df         the module-level frame of app.py, shared by the callbacks  *)
(*   page       page_content                                               *)
(*   registered the callbacks registered with the app                      *)
(*   ui         the input components' values and the theme store           *)
(*   view       the output components' values                              *)
(*   dirty      the callbacks Dash still has to run                        *)
(*   events     the user interactions so far                               *)
(*   call       the last function application (function-level checks)      *)
(***************************************************************************)
VARIABLES pc, fs, dl, console, df, page, registered, ui, view, dirty, events, call

vars == <<pc, fs, dl, console, df, page, registered, ui, view, dirty, events, call>>

NoCall == [fn |-> "none"]
NoDownload == [called |-> FALSE]
NoUI == [loaded |-> FALSE]
NoView == [loaded |-> FALSE]
NoPage == [kind |-> "none", ids |-> {}]

\* The CSV the Kaggle dataset holds.
KaggleCsv == CsvTable(MkDF(<<1, 2, 3>>))

\* A table without the column c.
WithoutColumn(d, c) ==
    DF(d.cols \ {c},
       [i \in DOMAIN d.rows |-> [f \in (DOMAIN d.rows[i]) \ {c} |-> d.rows[i][f]]])

\* The CSV files the application is started on.
AppCsvFiles ==
    {CsvMissing, CsvEmpty, CsvGarbage,
     CsvTable(WithoutColumn(MkDF(<<1, 2>>), "mental_health_rating")),
     CsvTable(WithoutColumn(DF(AllColumns, <<>>), "gender")),
     CsvTable(DF(AllColumns, <<>>)),
     CsvTable(MkDF(<<1, 2, 3>>)),
     CsvTable(MkDF(<<2, 4>>))}

\* kaggle.json and the archive are looked at only when the CSV is missing.
InitialFileSystems ==
    {[csv |-> c, kaggle_json |-> FALSE, zip |-> ZipMissing] : c \in AppCsvFiles \ {CsvMissing}}
    \cup
    {[csv |-> CsvMissing, kaggle_json |-> k, zip |-> z] :
        k \in BOOLEAN, z \in {ZipMissing, ZipCorrupt, ZipGood(KaggleCsv)}}

CliOutcomes == {"ok", "fail", "partial"}

Init ==
    /\ pc = "start"
    /\ fs \in InitialFileSystems
    /\ dl = NoDownload
    /\ console = <<>>
    /\ df = NoneDF
    /\ page = NoPage
    /\ registered = {}
    /\ ui = NoUI
    /\ view = NoView
    /\ dirty = {}
    /\ events = 0
    /\ call = NoCall

(***************************************************************************)
(* app.py, statement by statement.                                         *)
(***************************************************************************)
\* data_manager.download_data_if_needed()
DownloadDataIfNeeded ==
    /\ pc = "start"
    /\ \E cli \in CliOutcomes :
         LET r == download_data_if_needed(fs, cli, KaggleCsv)
         IN  /\ fs' = r.fs
             /\ console' = console \o r.printed
             /\ dl' = [called |-> TRUE, csv_before |-> fs.csv,
                       cli |-> IF r.downloads = 1 THEN cli ELSE "none",
                       downloads |-> r.downloads, extractions |-> r.extractions,
                       caught |-> r.caught, raised |-> r.raised, printed |-> r.printed]
             /\ pc' = IF r.raised = "" THEN "downloaded" ELSE "crashed"
    /\ UNCHANGED <<df, page, registered, ui, view, dirty, events, call>>

\* df = data_manager.load_validated_data()
LoadValidatedData ==
    /\ pc = "downloaded"
    /\ LET r == load_validated_data(fs.csv)
       IN  /\ df' = r.ret
           /\ console' = Append(console, r.printed)
           /\ pc' = IF r.raised = "" THEN "loaded" ELSE "crashed"
    /\ UNCHANGED <<fs, dl, page, registered, ui, view, dirty, events, call>>

\* A start-up that builds the page with create_layout whatever the load returned.
BuildLayoutNoErrorPage ==
    /\ pc = "loaded"
    /\ LET page_content == create_layout(df)
       IN  page' = [page_content EXCEPT !.ids = @ \cup {"main-stylesheet"}]
    /\ pc' = "layout"
    /\ UNCHANGED <<fs, dl, console, df, registered, ui, view, dirty, events, call>>

\* page_content = ...; app = dash.Dash(...); app.layout = html.Div([...])
BuildLayout ==
    /\ pc = "loaded"
    /\ LET page_content == IF ~df.none THEN create_layout(df) ELSE create_error_layout
       IN  page' = [page_content EXCEPT !.ids = @ \cup {"main-stylesheet"}]
    /\ pc' = "layout"
    /\ UNCHANGED <<fs, dl, console, df, registered, ui, view, dirty, events, call>>

\* A start-up that registers the callbacks whether or not the data loaded.
RegisterCallbacksAlways ==
    /\ pc = "layout"
    /\ registered' = register_callbacks(df)
    /\ pc' = "registered"
    /\ UNCHANGED <<fs, dl, console, df, page, ui, view, dirty, events, call>>

\* if df is not None: register_callbacks(app, df)
RegisterCallbacks ==
    /\ pc = "layout"
    /\ registered' = IF ~df.none THEN register_callbacks(df) ELSE {}
    /\ pc' = "registered"
    /\ UNCHANGED <<fs, dl, console, df, page, ui, view, dirty, events, call>>

\* app.run(...)
RunServer ==
    /\ pc = "registered"
    /\ console' = Append(console, "serving")
    /\ pc' = "serving"
    /\ UNCHANGED <<fs, dl, df, page, registered, ui, view, dirty, events, call>>

(***************************************************************************)
(* The served page.  Dash runs a callback when one of its inputs was set,  *)
(* with the current values of all its inputs, once no callback whose       *)
(* output is one of its inputs is still to run; on page load every         *)
(* registered callback whose components are in the layout is to run.       *)
(***************************************************************************)
Wired(cb) == (CallbackInputs[cb] \cup CallbackOutputs[cb]) \subseteq page.ids

\* The registered callbacks that have the component id among their inputs.
Triggered(id) == {cb \in registered : id \in CallbackInputs[cb] /\ Wired(cb)}

Blocked(cb) ==
    \E other \in dirty \ {cb} : CallbackOutputs[other] \cap CallbackInputs[cb] # {}

\* A browser loads the page.
PageLoad ==
    /\ pc = "serving"
    /\ pc' = "open"
    /\ ui' = IF page.kind = "dashboard"
             THEN [loaded |-> TRUE, gender |-> NoneVal, edu |-> NoneVal, job |-> NoneVal,
                   hours |-> page.slider_value, theme_selector |-> page.theme_selector,
                   theme_store |-> page.theme_store]
             ELSE [loaded |-> TRUE]
    /\ view' = IF page.kind = "dashboard"
               THEN [loaded |-> TRUE, href |-> "", layout_style |-> InitialLayoutStyle,
                     classes |-> <<"", "", "">>, visuals |-> [shown |-> FALSE]]
               ELSE [loaded |-> TRUE, href |-> ""]
    /\ dirty' = {cb \in registered : Wired(cb)}
    /\ UNCHANGED <<fs, dl, console, df, page, registered, events, call>>

CanInteract == pc = "open" /\ page.kind = "dashboard" /\ events < MaxEvents

\* Clicking option o of a multi-select dropdown: added at the end, or removed.
Toggle(sel, o) ==
    LET cur == IF sel.none THEN <<>> ELSE sel.v
        Other(x) == x # o
    IN  IF o \in Range(cur) THEN Some(SelectSeq(cur, Other)) ELSE Some(Append(cur, o))

SelectGender ==
    /\ CanInteract
    /\ \E i \in DOMAIN page.gender_options :
         ui' = [ui EXCEPT !.gender = Toggle(@, page.gender_options[i])]
    /\ dirty' = dirty \cup Triggered("gender-filter")
    /\ events' = events + 1
    /\ UNCHANGED <<pc, fs, dl, console, df, page, registered, view, call>>

SelectEdu ==
    /\ CanInteract
    /\ \E i \in DOMAIN page.edu_options :
         ui' = [ui EXCEPT !.edu = Toggle(@, page.edu_options[i])]
    /\ dirty' = dirty \cup Triggered("edu-filter")
    /\ events' = events + 1
    /\ UNCHANGED <<pc, fs, dl, console, df, page, registered, view, call>>

SelectJob ==
    /\ CanInteract
    /\ \E i \in DOMAIN page.job_options :
         ui' = [ui EXCEPT !.job = Toggle(@, page.job_options[i])]
    /\ dirty' = dirty \cup Triggered("job-filter")
    /\ events' = events + 1
    /\ UNCHANGED <<pc, fs, dl, console, df, page, registered, view, call>>

\* Dragging the range slider (step 1) to another pair lo <= hi.
MoveSlider ==
    /\ CanInteract
    /\ \E lo \in page.slider_min..page.slider_max, hi \in page.slider_min..page.slider_max :
         /\ lo <= hi
         /\ <<lo, hi>> # ui.hours
         /\ ui' = [ui EXCEPT !.hours = <<lo, hi>>]
    /\ dirty' = dirty \cup Triggered("study-hours-slider")
    /\ events' = events + 1
    /\ UNCHANGED <<pc, fs, dl, console, df, page, registered, view, call>>

SelectTheme ==
    /\ CanInteract
    /\ \E t \in {"Jasny", "Ciemny"} \ {ui.theme_selector} :
         ui' = [ui EXCEPT !.theme_selector = t]
    /\ dirty' = dirty \cup Triggered("theme-selector")
    /\ events' = events + 1
    /\ UNCHANGED <<pc, fs, dl, console, df, page, registered, view, call>>

Ready(cb) == pc = "open" /\ cb \in dirty /\ ~Blocked(cb)

RunUpdateThemeStore ==
    /\ Ready("update_theme_store")
    /\ ui' = [ui EXCEPT !.theme_store = update_theme_store(ui.theme_selector)]
    /\ dirty' = (dirty \ {"update_theme_store"}) \cup Triggered("theme-store")
    /\ UNCHANGED <<pc, fs, dl, console, df, page, registered, view, events, call>>

RunUpdateMainStylesheet ==
    /\ Ready("update_main_stylesheet")
    /\ view' = [view EXCEPT !.href = update_main_stylesheet(ui.theme_store)]
    /\ dirty' = dirty \ {"update_main_stylesheet"}
    /\ UNCHANGED <<pc, fs, dl, console, df, page, registered, ui, events, call>>

RunUpdateDropdownClass ==
    /\ Ready("update_dropdown_class")
    /\ view' = [view EXCEPT !.classes = update_dropdown_class(ui.theme_store)]
    /\ dirty' = dirty \ {"update_dropdown_class"}
    /\ UNCHANGED <<pc, fs, dl, console, df, page, registered, ui, events, call>>

RunUpdateLayoutStyle ==
    /\ Ready("update_layout_style")
    /\ view' = [view EXCEPT !.layout_style = update_layout_style(ui.theme_store)]
    /\ dirty' = dirty \ {"update_layout_style"}
    /\ UNCHANGED <<pc, fs, dl, console, df, page, registered, ui, events, call>>

OutputNames ==
    Range(FigureNames) \cup {"student_count", "avg_score", "avg_study_hours"}

\* The twelve values a run of update_all_visuals hands to the page.
Outputs(r) == [n \in OutputNames |-> r[n]] @@ [shown |-> TRUE]

RunUpdateAllVisuals ==
    /\ Ready("update_all_visuals")
    /\ LET r == update_all_visuals(df, ui.gender, ui.edu, ui.hours, ui.job, ui.theme_store)
       IN  /\ view' = IF r.raised = "" THEN [view EXCEPT !.visuals = Outputs(r)] ELSE view
           /\ df' = r.df
    /\ dirty' = dirty \ {"update_all_visuals"}
    /\ UNCHANGED <<pc, fs, dl, console, page, registered, ui, events, call>>

Startup ==
    \/ DownloadDataIfNeeded
    \/ LoadValidatedData
    \/ BuildLayout
    \/ RegisterCallbacks
    \/ RunServer

UserEvent ==
    \/ SelectGender
    \/ SelectEdu
    \/ SelectJob
    \/ MoveSlider
    \/ SelectTheme

RunCallback ==
    \/ RunUpdateThemeStore
    \/ RunUpdateMainStylesheet
    \/ RunUpdateDropdownClass
    \/ RunUpdateLayoutStyle
    \/ RunUpdateAllVisuals

Next ==
    \/ Startup
    \/ PageLoad
    \/ UserEvent
    \/ RunCallback

Spec == Init /\ [][Next]_vars

CallbackNames == DOMAIN CallbackInputs

\* What running callback cb does to the set of callbacks still to run (the
\* dirty' conjunct of each action of RunCallback).
Drain(cb) ==
    /\ Ready(cb)
    /\ dirty' = (dirty \ {cb}) \cup
                (IF cb = "update_theme_store" THEN Triggered("theme-store") ELSE {})

\* The server answers every callback request it is sent: a callback that
\* stays ready to run does run.
FairSpec == Spec /\ \A cb \in CallbackNames : WF_dirty(Drain(cb))


(***************************************************************************)
(* Function-level specification: the filter, the visuals callback and the  *)
(* theme callbacks applied once to arguments drawn from bounded sets.      *)
(***************************************************************************)
\* The frames: None, a frame with columns and no row, and every frame of one
\* to MaxRows sample rows.
PureFrames ==
    {NoneDF, DF(AllColumns, <<>>)} \cup
    {MkDF(ks) : ks \in SeqsUpTo(DOMAIN RowPool, MaxRows) \ {<<>>}}

GenderArgs == {NoneVal, Some(<<>>), Some(<<"Female">>), Some(<<"Male", "Female">>)}
EduArgs == {NoneVal, Some(<<"Bachelor">>), Some(<<"Bachelor", "Master">>)}
JobArgs == {NoneVal, Some(<<>>), Some(<<"Yes">>)}
\* Slider values, and a list that is no pair.
HoursArgs == {<<0, 2>>, <<0, 1>>, <<1, 2>>, <<2, 2>>, <<>>}
\* Theme names: the two of THEMES, None, and a name THEMES does not know.
ThemeArgs == {"Jasny", "Ciemny", NoneName, "Sepia"}

InitPure ==
    /\ pc = "pure"
    /\ df \in PureFrames
    /\ fs = [csv |-> CsvMissing, kaggle_json |-> FALSE, zip |-> ZipMissing]
    /\ dl = NoDownload
    /\ console = <<>>
    /\ page = NoPage
    /\ registered = {}
    /\ ui = NoUI
    /\ view = NoView
    /\ dirty = {}
    /\ events = 0
    /\ call = NoCall

\* filter_data and update_all_visuals on the same arguments.
ApplyVisuals ==
    /\ pc = "pure"
    /\ call = NoCall
    /\ \E g \in GenderArgs, e \in EduArgs, j \in JobArgs, h \in HoursArgs,
          t \in {"Jasny", "Ciemny"} :
         LET f == filter_data(df, g, e, h, j)
             r == update_all_visuals(df, g, e, h, j, t)
         IN  /\ call' = [fn |-> "update_all_visuals", df |-> df,
                         selected_gender |-> g, selected_edu |-> e,
                         study_hours_range |-> h, selected_job |-> j, theme_name |-> t,
                         filtered |-> f.ret, out |-> r]
             /\ df' = r.df
    /\ UNCHANGED <<pc, fs, dl, console, page, registered, ui, view, dirty, events>>

\* The four values derived from a theme name.
ApplyTheme ==
    /\ pc = "pure"
    /\ call = NoCall
    /\ \E t \in ThemeArgs :
         call' = [fn |-> "theme", theme_name |-> t,
                  href |-> update_main_stylesheet(t),
                  classes |-> update_dropdown_class(t),
                  layout_style |-> update_layout_style(t),
                  template |-> Template(t)]
    /\ UNCHANGED <<pc, fs, dl, console, df, page, registered, ui, view, dirty, events>>

NextPure ==
    \/ ApplyVisuals
    \/ ApplyTheme

SpecPure == InitPure /\ [][NextPure]_vars


(***************************************************************************)
(* Properties.                                                             *)
(***************************************************************************)
\* A categorical selection restricts when it is a non-empty list.
Active(sel) == ~sel.none /\ sel.v # <<>>

\* Row r passes every active filter.
Passes(r, g, e, h, j) ==
    /\ Active(g) => r.gender \in Range(g.v)
    /\ Active(e) => r.parental_education_level \in Range(e.v)
    /\ Active(j) => r.part_time_job \in Range(j.v)
    /\ Len(h) = 2 => (h[1] * 10 <= r.study_hours_per_day /\ r.study_hours_per_day <= h[2] * 10)

\* The rows of d that pass, in d's order.
Passing(d, g, e, h, j) ==
    LET Keep(r) == Passes(r, g, e, h, j) IN SelectSeq(d.rows, Keep)

Applied == call.fn = "update_all_visuals"

\* C3: filter_data returns exactly the rows of the dataset that pass all
\* active filters (gender, parental education, part-time job in their
\* selections, study hours within the range), in their original order and
\* with the dataset's columns; None or [] as a selection restricts nothing;
\* a None or empty dataset gives an empty result.
C3_FilterExact ==
    Applied =>
        IF call.df.none \/ IsEmpty(call.df)
        THEN IsEmpty(call.filtered)
        ELSE /\ call.filtered.rows =
                  Passing(call.df, call.selected_gender, call.selected_edu,
                          call.study_hours_range, call.selected_job)
             /\ call.filtered.cols = call.df.cols
             /\ ~call.filtered.none

\* C3 witness: all four filters act at once and keep some rows, drop others.
C3_Witness ==
    /\ Applied
    /\ Active(call.selected_gender) /\ Active(call.selected_edu) /\ Active(call.selected_job)
    /\ Len(call.study_hours_range) = 2
    /\ Len(call.filtered.rows) > 0
    /\ Len(call.filtered.rows) < Len(call.df.rows)

\* The placeholder titles of the nine builders.
NoDataTitles ==
    {"Wplyw czasu nauki na wynik egzaminu (Brak danych)",
     "Rozklad wynikow egzaminu wzgledem plci (Brak danych)",
     "Korelacje miedzy cechami (Brak danych)",
     "Rozklad wynikow egzaminu (Brak danych)",
     "Srednie wyniki wg poziomu edukacji rodzicow (Brak danych)",
     "Sredni wynik vs liczba godzin snu (Brak danych)",
     "Rozklad frekwencji wg wynikow egzaminu (Brak danych)",
     "Struktura studentow: praca vs plec (Brak danych)",
     "Metryki wg kondycji psychicznej (Brak danych)"}

\* C5: each of the nine chart builders returns its "Brak danych" placeholder,
\* having read no column, when the filtered data is empty, and only for
\* non-empty data reads columns and hands data to the plotting primitive.
C5_GuardEmpty ==
    Applied =>
        \A i \in DOMAIN FigureNames :
            LET fig == call.out[FigureNames[i]]
            IN  IF IsEmpty(call.filtered)
                THEN fig.placeholder /\ fig.reads = {} /\ fig.title \in NoDataTitles
                     /\ fig.raised = ""
                ELSE ~fig.placeholder /\ fig.reads # {} /\ fig.title \notin NoDataTitles
                     /\ fig.raised = ""

\* C5 witness: a loaded dataset whose rows the filters all exclude.
C5_Witness ==
    /\ Applied
    /\ ~IsEmpty(call.df)
    /\ IsEmpty(call.filtered)
    /\ call.filtered.cols # {}
    /\ call.out.scatter_fig.placeholder
    /\ call.out.mental_fig.placeholder

\* C6: the KPIs are "0", "N/A", "N/A" when no row passes the filters;
\* otherwise the count of passing rows as text and the means of exam_score
\* and study_hours_per_day over exactly those rows, with two decimals; and
\* the callback never fails.
C6_Kpi ==
    Applied =>
        LET rows == IF call.df.none THEN <<>>
                    ELSE Passing(call.df, call.selected_gender, call.selected_edu,
                                 call.study_hours_range, call.selected_job)
        IN  /\ call.out.raised = ""
            /\ IF rows = <<>>
               THEN /\ call.out.student_count = "0"
                    /\ call.out.avg_score = "N/A"
                    /\ call.out.avg_study_hours = "N/A"
               ELSE /\ call.out.student_count = ToString(Len(rows))
                    /\ call.out.avg_score = Format2(SumOf(rows, "exam_score"), Len(rows))
                    /\ call.out.avg_study_hours =
                         Format2(SumOf(rows, "study_hours_per_day"), Len(rows))

\* C6 witness: three rows pass an active gender filter and a slider range;
\* scores 60.0, 75.6 and 40.4 average to 58.666..., shown as 58.67, and
\* hours 0.0, 1.6 and 1.0 to 0.8666..., shown as 0.87.
C6_Witness ==
    /\ Applied
    /\ Active(call.selected_gender)
    /\ Len(call.study_hours_range) = 2
    /\ call.out.student_count = "3"
    /\ call.out.avg_score = "58.67"
    /\ call.out.avg_study_hours = "0.87"

\* C7: update_main_stylesheet gives the DARKLY stylesheet for "Ciemny", the
\* FLATLY stylesheet for "Jasny", and FLATLY for every other value, None
\* included; it never fails.
C7_Stylesheet ==
    call.fn = "theme" =>
        call.href = (IF call.theme_name = "Ciemny" THEN "dbc.themes.DARKLY"
                     ELSE "dbc.themes.FLATLY")

\* C7 witness: a theme name THEMES does not know.
C7_Witness ==
    /\ call.fn = "theme"
    /\ call.theme_name \notin {"Jasny", "Ciemny"}
    /\ call.href = "dbc.themes.FLATLY"


\* The states of app.py after load_validated_data returned.
AfterLoad == pc \in {"loaded", "layout", "registered", "serving", "open"}

\* The dashboard is in a browser.
Live == pc = "open" /\ page.kind = "dashboard"

\* The five inputs of update_all_visuals.
FiveInputs(u) == <<u.gender, u.edu, u.hours, u.job, u.theme_store>>

\* The outputs on the page are those of the inputs u: the three KPIs and
\* every figure are made of exactly the rows that pass u's filters, in the
\* template of u's theme.
Recomputed(v, u) ==
    LET rows == Passing(df, u.gender, u.edu, u.hours, u.job)
        ids == {rows[i].idx : i \in DOMAIN rows}
        tpl == IF u.theme_store = "Ciemny" THEN "plotly_dark" ELSE "plotly_white"
    IN  /\ v.shown
        /\ v.student_count = ToString(Len(rows))
        /\ (rows = <<>>) = (v.avg_score = "N/A")
        /\ (rows = <<>>) = (v.avg_study_hours = "N/A")
        /\ \A i \in DOMAIN FigureNames :
              LET fig == v[FigureNames[i]]
              IN  /\ fig.placeholder = (rows = <<>>)
                  /\ ~fig.placeholder => fig.template = tpl
        /\ rows # <<>> =>
              /\ v.avg_score = Format2(SumOf(rows, "exam_score"), Len(rows))
              /\ v.avg_study_hours = Format2(SumOf(rows, "study_hours_per_day"), Len(rows))
              /\ Len(v.scatter_fig.data) = Len(rows)
              /\ Len(v.box_fig.data) = Len(rows)
              /\ Len(v.histogram_fig.data) = Len(rows)
              /\ Len(v.heatmap_fig.data[1].corr_of) = Len(rows)
              /\ Len(v.attendance_fig.data) = Len(rows)

\* C1: whenever one of the five inputs (gender, parental education, part-time
\* job, study-hours range, theme store) changes, update_all_visuals is set to
\* run; when it runs it recomputes all nine figures and all three KPIs from
\* the current values of all five inputs; and once set to run, it runs.
C1_Reactive ==
    /\ [][(Live /\ pc' = "open" /\ FiveInputs(ui') # FiveInputs(ui))
             => "update_all_visuals" \in dirty']_vars
    /\ [][(Live /\ "update_all_visuals" \in dirty /\ "update_all_visuals" \notin dirty')
             => (Recomputed(view'.visuals, ui) /\ ui' = ui)]_vars
    /\ (("update_all_visuals" \in dirty) ~> ("update_all_visuals" \notin dirty))

\* C1 witness: after a gender selection and a switch to the dark theme the
\* callback has run on both: filtered charts in the dark template.
C1_Witness ==
    /\ Live
    /\ events = 2
    /\ "update_all_visuals" \notin dirty
    /\ Active(ui.gender)
    /\ ui.theme_store = "Ciemny"
    /\ view.visuals.shown
    /\ view.visuals.scatter_fig.template = "plotly_dark"
    /\ Len(view.visuals.scatter_fig.data) < Len(df.rows)

\* The frame load_validated_data returns for the CSV on disk.
LoadedFrame == load_validated_data(fs.csv).ret

\* C2: the displayed outputs are a function of the current inputs only.
\* Whenever update_all_visuals has nothing left to run, the nine figures and
\* three KPIs on the page are what the five current input values give on
\* the dataset as it was loaded, whatever filter and theme changes came
\* before; so two histories that end in the same five values show the same
\* outputs, and no callback changes what a later one computes from.
C2_FunctionOfInputs ==
    (Live /\ "update_all_visuals" \notin dirty) =>
        /\ view.visuals.shown
        /\ view.visuals =
             Outputs(update_all_visuals(LoadedFrame, ui.gender, ui.edu, ui.hours,
                                        ui.job, ui.theme_store))

\* C2 witness: two interactions later the five inputs are back at the values
\* the page loaded with (a slider moved and moved back, a theme switched
\* twice), and every callback has run.
C2_Witness ==
    /\ Live
    /\ events = 2
    /\ dirty = {}
    /\ ui.gender.none /\ ui.edu.none /\ ui.job.none
    /\ ui.hours = page.slider_value
    /\ ui.theme_store = page.theme_store
    /\ view.visuals.shown

\* C4: the loaded dataset is never modified: after any sequence of callback
\* runs with any filter values, df has the rows, columns and values it was
\* loaded with, also after the violin chart added its score_category column.
C4_DatasetUnchanged == AfterLoad => df = LoadedFrame

\* C4 witness: the callback ran with a filter that drops rows, and the violin
\* chart was built from the rest with their score categories.
C4_Witness ==
    /\ Live
    /\ view.visuals.shown
    /\ ~view.visuals.attendance_fig.placeholder
    /\ "score_category" \in view.visuals.attendance_fig.reads
    /\ Len(view.visuals.attendance_fig.data) < Len(df.rows)
    /\ "score_category" \notin df.cols

\* Some message on the console reports an error.
ErrorPrinted == \E i \in DOMAIN console : console[i] \in ErrorMessages

\* The messages load_validated_data prints.
LoadMessages ==
    {"csv_not_found", "csv_empty", "load_error", "missing_columns", "dataset_empty", "load_ok"}

\* How often load_validated_data ran.
Loads == Cardinality({i \in DOMAIN console : console[i] \in LoadMessages})

ValidCsv(csv) ==
    /\ csv.kind = "table"
    /\ \A i \in DOMAIN REQUIRED_COLUMNS : REQUIRED_COLUMNS[i] \in csv.cols
    /\ Len(csv.rows) >= 1

\* C9: load_validated_data returns a dataset only if the CSV exists, parses,
\* has every one of the nine REQUIRED_COLUMNS and at least one row, and then
\* returns that table; in every other case it returns None; it raises
\* nothing. So a dataset it returns is non-empty and has all required columns.
C9_LoadValidated ==
    /\ pc # "crashed"
    /\ pc = "loaded" =>
        /\ ValidCsv(fs.csv) => (~df.none /\ df.rows = fs.csv.rows /\ df.cols = fs.csv.cols)
        /\ ~ValidCsv(fs.csv) => df.none
        /\ ~df.none => (~IsEmpty(df) /\ Range(REQUIRED_COLUMNS) \subseteq df.cols)
        /\ Len(REQUIRED_COLUMNS) = 9

\* C9 witness: a CSV with every required column in its header and no row.
C9_Witness ==
    /\ pc = "loaded"
    /\ fs.csv.kind = "table"
    /\ Range(REQUIRED_COLUMNS) \subseteq fs.csv.cols
    /\ fs.csv.rows = <<>>
    /\ df.none

\* The kaggle command failed, or unpacking the archive raised.
DownloadFailed == dl.downloads = 1 /\ (dl.cli # "ok" \/ dl.caught # "")

\* C10: download_data_if_needed downloads only when needed: with the CSV on
\* disk nothing is downloaded or unpacked; with the CSV and kaggle.json both
\* missing it returns without a download; it downloads at most once per
\* call; and a failure during download or extraction is caught and reported,
\* never raised.
C10_DownloadIfNeeded ==
    dl.called =>
        /\ dl.csv_before.kind # "missing" => (dl.downloads = 0 /\ dl.extractions = 0)
        /\ (dl.csv_before.kind = "missing" /\ ~fs.kaggle_json) =>
              (dl.downloads = 0 /\ dl.extractions = 0)
        /\ dl.downloads <= 1
        /\ dl.raised = ""
        /\ DownloadFailed => "download_error" \in Range(dl.printed)

(***************************************************************************)
(* Registration of the stylesheet callback.                                *)
(***************************************************************************)
\* app.py is past its registration step.
AfterRegistration == pc \in {"registered", "serving", "open"}

\* C11: update_main_stylesheet is always registered, including when the
\* dataset failed to load and the error page is served.
C11_StylesheetAlwaysRegistered ==
    AfterRegistration => "update_main_stylesheet" \in registered

(***************************************************************************)
(* The slider's default value.                                             *)
(***************************************************************************)
\* The dashboard as first shown: no dropdown was touched, the slider is at
\* its default, and update_all_visuals has run on the page load.
InitialView ==
    /\ Live
    /\ events = 0
    /\ "update_all_visuals" \notin dirty
    /\ view.visuals.shown

\* C12: the slider's default [min_hours, max_hours] covers the whole range
\* of the data: in the initial state filter_data returns every row of the
\* loaded dataset and the student-count KPI is the total number of rows.
C12_SliderCoversData ==
    InitialView =>
        /\ ui.hours = <<page.slider_min, page.slider_max>>
        /\ filter_data(df, ui.gender, ui.edu, ui.hours, ui.job).ret.rows = df.rows
        /\ view.visuals.student_count = ToString(Len(df.rows))

(***************************************************************************)
(* The theme of the figures.                                               *)
(***************************************************************************)
\* The theme of THEMES that is not t.
OtherTheme(t) == IF t = "Ciemny" THEN "Jasny" ELSE "Ciemny"

\* C13: every figure update_all_visuals returns is rendered in the theme of
\* the theme store: for every filter state, one that matches no row
\* included, all nine figures carry "plotly_dark" when the theme is "Ciemny"
\* and "plotly_white" otherwise, so the same call under the other theme
\* returns nine different figures.
C13_FiguresCarryTheme ==
    (Applied /\ call.out.raised = "") =>
        LET other == update_all_visuals(call.df, call.selected_gender, call.selected_edu,
                                        call.study_hours_range, call.selected_job,
                                        OtherTheme(call.theme_name))
        IN  \A i \in DOMAIN FigureNames :
               /\ call.out[FigureNames[i]].template =
                     (IF call.theme_name = "Ciemny" THEN "plotly_dark" ELSE "plotly_white")
               /\ call.out[FigureNames[i]] # other[FigureNames[i]]

(***************************************************************************)
(* Theme propagation.                                                      *)
(***************************************************************************)
\* The callbacks that have theme-store among their inputs.
ThemeConsumers ==
    {"update_main_stylesheet", "update_dropdown_class", "update_layout_style",
     "update_all_visuals"}

\* The page shows theme t: the store, the stylesheet, the layout's colours,
\* the three dropdown classes and the template of every chart drawn from data.
ShowsTheme(t) ==
    LET dark == t = "Ciemny"
    IN  /\ Live
        /\ ui.theme_store = t
        /\ view.href = (IF dark THEN "dbc.themes.DARKLY" ELSE "dbc.themes.FLATLY")
        /\ view.layout_style.backgroundColor = (IF dark THEN "#1e1e1e" ELSE "white")
        /\ view.layout_style.color = (IF dark THEN "white" ELSE "black")
        /\ view.classes = (IF dark THEN <<"dark-dropdown", "dark-dropdown", "dark-dropdown">>
                                   ELSE <<"", "", "">>)
        /\ view.visuals.shown
        /\ \A i \in DOMAIN FigureNames :
              ~view.visuals[FigureNames[i]].placeholder =>
                  view.visuals[FigureNames[i]].template =
                      (IF dark THEN "plotly_dark" ELSE "plotly_white")

C15_ThemeOutputsAgree ==
    call.fn = "theme" =>
        IF call.theme_name = "Ciemny"
        THEN /\ call.href = "dbc.themes.DARKLY"
             /\ call.layout_style.backgroundColor = "#1e1e1e"
             /\ call.classes = <<"dark-dropdown", "dark-dropdown", "dark-dropdown">>
             /\ call.template = "plotly_dark"
        ELSE /\ call.href = "dbc.themes.FLATLY"
             /\ call.layout_style.backgroundColor = "white"
             /\ call.classes = <<"", "", "">>
             /\ call.template = "plotly_white"

\* C15 witness: None in the theme store gives four light outputs.
C15_Witness ==
    /\ call.fn = "theme"
    /\ call.theme_name = NoneName
    /\ call.layout_style.backgroundColor = "white"
    /\ call.layout_style.color = "black"
    /\ call.classes[1] = ""
    /\ call.template = "plotly_white"

(***************************************************************************)
(* Start-up order of app.py.                                               *)
(***************************************************************************)
\* The statements of app.py in program order, as values of pc.
StartupOrder == <<"start", "downloaded", "loaded", "layout", "registered", "serving", "open">>

\* The place of a value of pc in the start-up order.
StepOf(p) == CHOOSE i \in DOMAIN StartupOrder : StartupOrder[i] = p

\* Every component id a callback reads or writes.
CallbackIds ==
    UNION {CallbackInputs[cb] \cup CallbackOutputs[cb] : cb \in CallbackNames}

FilterColumns == {"gender", "parental_education_level", "part_time_job"}

\* The selection of the call with column c's dropdown set to sel.
SelectionWith(c, sel) ==
    [gender |-> IF c = "gender" THEN sel ELSE call.selected_gender,
     parental_education_level |->
         IF c = "parental_education_level" THEN sel ELSE call.selected_edu,
     part_time_job |-> IF c = "part_time_job" THEN sel ELSE call.selected_job]

\* The rows filter_data returns for the call's frame and range with column
\* c's dropdown set to sel and the other two as in the call.
RowsWhen(c, sel) ==
    LET s == SelectionWith(c, sel)
    IN  filter_data(call.df, s.gender, s.parental_education_level,
                    call.study_hours_range, s.part_time_job).ret.rows

\* The call was made on a frame the dashboard can be built on.
AppliedOnData == Applied /\ ~call.df.none /\ ~IsEmpty(call.df)

\* The options offered for column c are the distinct non-missing values of
\* the column, each once.
OptionsArePresentValues(c) ==
    LET opts == Options(call.df, c)
    IN  /\ Range(opts) = {call.df.rows[i][c] : i \in DOMAIN call.df.rows} \ {NaN}
        /\ Cardinality(Range(opts)) = Len(opts)

\* C17 as stated: for each categorical filter, selecting every option the
\* dropdown offers yields the same filtered rows as selecting nothing; the
\* options are the distinct non-missing values of the column.
C17_SelectAllIsSelectNone ==
    AppliedOnData =>
        \A c \in FilterColumns :
            /\ RowsWhen(c, Some(Options(call.df, c))) = RowsWhen(c, NoneVal)
            /\ OptionsArePresentValues(c)

\* C17 as amended: when the dropdown offers at least one option, selecting
\* every option yields exactly the rows, among those selecting nothing
\* yields, whose cell in that column is not missing: the same rows when no
\* passing row has a missing cell, fewer otherwise; when the column has
\* missing cells only the dropdown offers nothing and the empty selection
\* restricts nothing; the options are the distinct non-missing values of the
\* column.
C17_SelectAllDropsMissing ==
    AppliedOnData =>
        \A c \in FilterColumns :
            LET Present(r) == r[c] # NaN
                options == Options(call.df, c)
                all == RowsWhen(c, Some(options))
                nothing == RowsWhen(c, NoneVal)
            IN  /\ options # <<>> =>
                      /\ all = SelectSeq(nothing, Present)
                      /\ (\A i \in DOMAIN nothing : Present(nothing[i])) <=> (all = nothing)
                /\ options = <<>> => all = nothing
                /\ OptionsArePresentValues(c)

\* C17 witness: every education level offered is selected and a row without
\* a level, shown while nothing is selected, is not among the rows returned.
C17_Witness ==
    /\ AppliedOnData
    /\ ~call.selected_edu.none
    /\ call.selected_edu.v = Options(call.df, "parental_education_level")
    /\ Len(call.selected_edu.v) = 2
    /\ \E i \in DOMAIN call.df.rows :
          /\ call.df.rows[i].parental_education_level = NaN
          /\ call.df.rows[i] \in Range(RowsWhen("parental_education_level", NoneVal))
          /\ call.df.rows[i] \notin Range(call.filtered.rows)

(***************************************************************************)
(* Algebra of filter_data.                                                 *)
(***************************************************************************)
\* The non-empty selections made of values of sel only.
Shrunk(sel) ==
    IF Active(sel)
    THEN {Some(s) : s \in SeqsUpTo(Range(sel.v), Len(sel.v)) \ {<<>>}}
    ELSE {}

\* The slider pairs within the pair h.
Narrowed(h) ==
    IF Len(h) = 2
    THEN {<<lo, hi>> : lo \in h[1]..h[2], hi \in h[1]..h[2]}
    ELSE {}

\* The rows filter_data returns for the call's frame.
Filtered(g, e, h, j) == filter_data(call.df, g, e, h, j).ret.rows

\* Every row of the sequence a is a row of the sequence b.
RowsWithin(a, b) == Range(a) \subseteq Range(b)

\* Filter k of the four on frame d, with the call's arguments.
FilterStep(k, d) ==
    IF k = 1 THEN GenderStep(d, call.selected_gender)
    ELSE IF k = 2 THEN EduStep(d, call.selected_edu)
    ELSE IF k = 3 THEN JobStep(d, call.selected_job)
    ELSE HoursStep(d, call.study_hours_range)

\* The orders in which four filters can be applied.
FilterOrders == {p \in [1..4 -> 1..4] : \A a, b \in 1..4 : p[a] = p[b] => a = b}

\* C18: filter_data is monotone, order-independent and idempotent: the
\* result is a subset of the dataset's rows, in the dataset's order;
\* shrinking a non-empty categorical selection to a non-empty subset, or
\* narrowing the study-hours range, never adds rows; the result is the same
\* in whatever order the four filters are applied; and filter_data applied
\* with the same arguments to its own result returns the same rows.
C18_FilterAlgebra ==
    Applied =>
        LET g == call.selected_gender
            e == call.selected_edu
            j == call.selected_job
            h == call.study_hours_range
            rows == call.filtered.rows
        IN  /\ RowsWithin(rows, call.df.rows)
            /\ \A a, b \in DOMAIN rows : a < b => rows[a].idx < rows[b].idx
            /\ \A g2 \in Shrunk(g) : RowsWithin(Filtered(g2, e, h, j), rows)
            /\ \A e2 \in Shrunk(e) : RowsWithin(Filtered(g, e2, h, j), rows)
            /\ \A j2 \in Shrunk(j) : RowsWithin(Filtered(g, e, h, j2), rows)
            /\ \A h2 \in Narrowed(h) : RowsWithin(Filtered(g, e, h2, j), rows)
            /\ (~call.df.none /\ ~IsEmpty(call.df)) =>
                  \A p \in FilterOrders :
                      FilterStep(p[4], FilterStep(p[3], FilterStep(p[2],
                          FilterStep(p[1], call.df)))) = call.filtered
            /\ filter_data(call.filtered, g, e, h, j).ret.rows = rows

\* C18 witness: a two-gender selection, a job selection and a range keep
\* some rows and drop others, and shrinking the gender selection to one
\* value drops more.
C18_Witness ==
    /\ Applied
    /\ Active(call.selected_gender) /\ Len(call.selected_gender.v) = 2
    /\ Active(call.selected_job)
    /\ Len(call.study_hours_range) = 2
    /\ call.filtered.rows # <<>>
    /\ Len(call.filtered.rows) < Len(call.df.rows)
    /\ \E g2 \in Shrunk(call.selected_gender) :
          Len(Filtered(g2, call.selected_edu, call.study_hours_range, call.selected_job))
              < Len(call.filtered.rows)

(***************************************************************************)
(* The bar chart.                                                          *)
(***************************************************************************)
\* C19: the bar chart shows exactly one bar per parental_education_level
\* present in the filtered data, of height the mean exam_score of the
\* filtered rows with that level, the bars in ascending order of the mean.
C19_BarChart ==
    (Applied /\ ~IsEmpty(call.filtered)) =>
        LET rows == call.filtered.rows
            fig == call.out.barchart_fig
            bars == fig.data
            levels == {rows[i].parental_education_level : i \in DOMAIN rows} \ {NaN}
        IN  /\ fig.raised = ""
            /\ ~fig.placeholder
            /\ {bars[k].key : k \in DOMAIN bars} = levels
            /\ Len(bars) = Cardinality(levels)
            /\ \A k \in DOMAIN bars :
                  LET Same(r) == r.parental_education_level = bars[k].key
                      group == SelectSeq(rows, Same)
                  IN  /\ bars[k].mean.den > 0
                      /\ bars[k].mean.num * 10 * Len(group) =
                            SumOf(group, "exam_score") * bars[k].mean.den
            /\ \A a, b \in DOMAIN bars :
                  a < b => bars[a].mean.num * bars[b].mean.den
                              <= bars[b].mean.num * bars[a].mean.den

\* C19 witness: two levels whose means, 40.4 for Master and 60.0 for
\* Bachelor, put the bars in the reverse of the levels' alphabetical order.
C19_Witness ==
    /\ Applied
    /\ Len(call.filtered.rows) = 2
    /\ Len(call.out.barchart_fig.data) = 2
    /\ call.out.barchart_fig.data[1].key = "Master"
    /\ call.out.barchart_fig.data[1].mean = [num |-> 404, den |-> 10]
    /\ call.out.barchart_fig.data[2].key = "Bachelor"
    /\ call.out.barchart_fig.data[2].mean = [num |-> 600, den |-> 10]

=============================================================================
